---- MODULE Spec2Model ----
(***************************************************************************)
(* The insight-derivation pipeline of the slide generator:                 *)
(*   InsightsGenerator (src/Insight_generator.py) turns a parsed           *)
(*   spreadsheet into a metrics dict, a summary and recommendations;       *)
(*   SlideGenerator (src/src/slide_generator.py) turns those into charts   *)
(*   and the slide deck.                                                   *)
(*                                                                         *)
(* Representation of Python values:                                        *)
(*   - a dict is a function on its keys ("k" in d  is  k \in DOMAIN d);    *)
(*   - a list is a sequence;                                               *)
(*   - a DataFrame is [columns, rows], each row a function on columns;     *)
(*   - numbers that carry one decimal (Churn_Rate, churn_change,           *)
(*     growth_qoq, cac_reduction) are held as integer TENTHS, exactly;     *)
(*     Revenue, NPS, CAC and Marketing_Spend are integers;  the code's     *)
(*     binary doubles differ from the exact values by rounding noise only  *)
(*     (7.4 - 5.1 is 2.3000000000000007 there), and an int 0 it returns    *)
(*     where a prior value is 0 prints "0", not "0.0";  SpecDoubles, at    *)
(*     the end, computes the churn figures as the doubles they are;        *)
(*   - a cell of a numeric column that holds text instead of a number is   *)
(*     written Text;                                                       *)
(*   - a call either returns a value or raises: [raised, value | error].   *)
(***************************************************************************)
EXTENDS Integers, Sequences, FiniteSets, TLC

VARIABLES
    parsed_data,   \* the request's parsed files: [spreadsheets, pdfs]
    template_id,   \* the request's template identifier
    pc,            \* where the request stands
    insights,      \* what generate_insights returned (or the narrative's input)
    charts,        \* the chart list handed to generate_slide_data
    slide_data,    \* what generate_slides / generate_slide_data returned
    error,         \* the message of the exception that ended the request
    reference      \* an earlier finished request, kept for comparison

vars == <<parsed_data, template_id, pc, insights, charts, slide_data, error, reference>>

-----------------------------------------------------------------------------
(* Bounds of the model *)

\* most rows of a generated spreadsheet
MaxRows == 3

\* largest revenue of a generated row
MaxRevenue == 3

\* most charts of a chart list handed to generate_slide_data directly
MaxCharts == 2

-----------------------------------------------------------------------------
(* Python helpers *)

Return(v) == [raised |-> FALSE, value |-> v]

Raise(msg) == [raised |-> TRUE, error |-> msg]

EmptyDict == <<>>

\* dict.update
Update(d, e) ==
    [k \in (DOMAIN d) \cup (DOMAIN e) |-> IF k \in DOMAIN e THEN e[k] ELSE d[k]]

\* dict.get(key, default)
Get(d, k, default) == IF k \in DOMAIN d THEN d[k] ELSE default

Abs(n) == IF n < 0 THEN -n ELSE n

\* num/den rounded to the nearest integer, a tie going to the even neighbour
\* (den > 0); \div floors, so this is right for a negative num too
RoundHalfEven(num, den) ==
    LET q == num \div den
        r == num % den
    IN  IF 2 * r < den THEN q
        ELSE IF 2 * r > den THEN q + 1
        ELSE IF q % 2 = 0 THEN q ELSE q + 1

\* str() of a number held in tenths: "13.6", "-2.3", "0.0"
StrTenths(t) ==
    (IF t < 0 THEN "-" ELSE "") \o ToString(Abs(t) \div 10) \o "."
        \o ToString(Abs(t) % 10)

\* a cell of a numeric column that the parser left as text ("n/a"): read_csv and
\* read_excel keep what they cannot convert.  The figures of the model are never
\* negative, so no number is mistaken for it
Text == -1

IsText(v) == v = Text

\* str() of a cell: of an integer, or of the text the cell holds
Str(n) == IF IsText(n) THEN "n/a" ELSE ToString(n)

-----------------------------------------------------------------------------
(* pandas helpers *)

RECURSIVE Unique(_)
\* Series.unique(): the distinct values, in order of first appearance
Unique(s) ==
    IF s = <<>> THEN <<>>
    ELSE LET rest == Unique(SubSeq(s, 1, Len(s) - 1))
             last == s[Len(s)]
         IN  IF \E i \in 1..Len(rest) : rest[i] = last THEN rest
             ELSE Append(rest, last)

\* df[column] as a list
Column(df, c) == [i \in 1..Len(df.rows) |-> df.rows[i][c]]

\* the rows of df[df["Quarter"] == q], in row order
QuarterRows(df, q) == SelectSeq(df.rows, LAMBDA r : r["Quarter"] = q)

RECURSIVE SumRevenue(_)
\* rows["Revenue"].sum()
SumRevenue(rows) ==
    IF rows = <<>> THEN 0
    ELSE rows[1]["Revenue"] + SumRevenue(Tail(rows))

\* the region labels of the model in lexicographic order: groupby sorts its keys
RegionLabels == <<"APAC", "Europe", "North America">>

\* rows.groupby("Region")["Revenue"].sum(): one entry per region of rows, keys sorted
GroupByRegionSum(rows) ==
    LET present == SelectSeq(RegionLabels,
                       LAMBDA g : \E i \in 1..Len(rows) : rows[i]["Region"] = g)
    IN  [k \in 1..Len(present) |->
            [Region |-> present[k],
             Revenue |-> SumRevenue(SelectSeq(rows, LAMBDA r : r["Region"] = present[k]))]]

\* Series.idxmax(): the key of the first largest entry
IdxMax(groups) ==
    LET best == CHOOSE i \in 1..Len(groups) :
                    /\ \A j \in 1..Len(groups) : groups[j].Revenue <= groups[i].Revenue
                    /\ \A j \in 1..(i - 1) : groups[j].Revenue < groups[i].Revenue
    IN  groups[best].Region

\* rows[["Region", "Revenue"]].to_dict(orient="records")
RegionRecords(rows) ==
    [i \in 1..Len(rows) |-> [Region |-> rows[i]["Region"], Revenue |-> rows[i]["Revenue"]]]

\* a slip: the percentage cut to one decimal instead of rounded
Percent1Truncated(num, den) == (1000 * num) \div den

\* (num / den) * 100 rounded to one decimal, in tenths
Percent1(num, den) == RoundHalfEven(1000 * num, den)

-----------------------------------------------------------------------------
(* InsightsGenerator.analyze_spreadsheet *)

quarters(df) == Unique(Column(df, "Quarter"))

\* quarters[-1], quarters[-2]
CurrentQuarter(df) == quarters(df)[Len(quarters(df))]

\* a slip: the prior period taken from the front of the list, quarters[0]
FirstQuarter(df) == quarters(df)[1]

PriorQuarter(df) == quarters(df)[Len(quarters(df)) - 1]

\* the message of numpy's IndexError for quarters[-k] on n quarters
IndexErrorMessage(k, n) ==
    "index -" \o ToString(k) \o " is out of bounds for axis 0 with size " \o ToString(n)

\* a slip: the growth taken over the current total instead of the prior one
RevenueGrowthOverCurrent(q2_revenue, q1_revenue) ==
    IF q2_revenue > 0 THEN Percent1(q2_revenue - q1_revenue, q2_revenue) ELSE 0

\* a slip: growth from a prior total of 0 reported as 100%
RevenueGrowthFromZero(q2_revenue, q1_revenue) ==
    IF q1_revenue > 0 THEN Percent1(q2_revenue - q1_revenue, q1_revenue)
    ELSE IF q2_revenue > 0 THEN 1000 ELSE 0

RevenueGrowth(q2_revenue, q1_revenue) ==
    IF q1_revenue > 0 THEN Percent1(q2_revenue - q1_revenue, q1_revenue) ELSE 0

RevenueSection(df) ==
    IF Len(quarters(df)) >= 2
    THEN LET current == QuarterRows(df, CurrentQuarter(df))
             q2_revenue == SumRevenue(current)
             q1_revenue == SumRevenue(QuarterRows(df, PriorQuarter(df)))
         IN  [total_q2 |-> q2_revenue,
              growth_qoq |-> RevenueGrowth(q2_revenue, q1_revenue),
              top_region |-> IdxMax(GroupByRegionSum(current)),
              by_region |-> RegionRecords(current)]
    ELSE [error |-> "Insufficient quarters for revenue analysis"]

HasCustomerColumns(df) == "Churn_Rate" \in df.columns /\ "NPS" \in df.columns

HasCostColumns(df) == "CAC" \in df.columns /\ "Marketing_Spend" \in df.columns

CustomerSection(df) ==
    IF HasCustomerColumns(df)
    THEN LET q2_churn == QuarterRows(df, CurrentQuarter(df))[1]["Churn_Rate"]
             q1_churn == QuarterRows(df, PriorQuarter(df))[1]["Churn_Rate"]
             q2_nps == QuarterRows(df, CurrentQuarter(df))[1]["NPS"]
         IN  [churn_q2 |-> q2_churn,
              churn_change |-> q1_churn - q2_churn,
              nps_q2 |-> q2_nps,
              nps_change |-> q2_nps - QuarterRows(df, PriorQuarter(df))[1]["NPS"]]
    ELSE [error |-> "Missing churn or NPS data"]

CacReduction(q2_cac, q1_cac) ==
    IF q1_cac > 0 THEN Percent1(q1_cac - q2_cac, q1_cac) ELSE 0

CostSection(df) ==
    IF HasCostColumns(df)
    THEN LET q2_cac == QuarterRows(df, CurrentQuarter(df))[1]["CAC"]
             q1_cac == QuarterRows(df, PriorQuarter(df))[1]["CAC"]
         IN  [cac_q2 |-> q2_cac,
              cac_reduction |-> CacReduction(q2_cac, q1_cac),
              marketing_spend |->
                  QuarterRows(df, CurrentQuarter(df))[1]["Marketing_Spend"]]
    ELSE [error |-> "Missing CAC or marketing spend data"]

\* the customer and cost sections index quarters[-1] and quarters[-2] without
\* looking at len(quarters): the first one that does so out of bounds raises
QuarterIndexError(df) ==
    IF HasCustomerColumns(df) \/ HasCostColumns(df)
    THEN IF Len(quarters(df)) = 0 THEN IndexErrorMessage(1, 0)
         ELSE IF Len(quarters(df)) = 1 THEN IndexErrorMessage(2, 1)
         ELSE ""
    ELSE ""

\* some row of rows holds text in column c
TextIn(rows, c) == \E i \in 1..Len(rows) : IsText(rows[i][c])

\* lines 35-38: the revenue totals of the current and the prior period are
\* compared, subtracted and ranked; text among them makes the sum, the
\* comparison, the subtraction or idxmax raise TypeError
RevenueTypeError(df) ==
    /\ Len(quarters(df)) >= 2
    /\ \/ TextIn(QuarterRows(df, CurrentQuarter(df)), "Revenue")
       \/ TextIn(QuarterRows(df, PriorQuarter(df)), "Revenue")

\* lines 55 and 57: the first churn rates and NPS of the two periods are subtracted
CustomerTypeError(df) ==
    /\ HasCustomerColumns(df)
    /\ \E c \in {"Churn_Rate", "NPS"} :
           \/ IsText(QuarterRows(df, CurrentQuarter(df))[1][c])
           \/ IsText(QuarterRows(df, PriorQuarter(df))[1][c])

\* line 66: the prior CAC is compared with 0 and, when positive, the current CAC
\* is subtracted from it; Marketing_Spend is copied, never computed with
CostTypeError(df) ==
    /\ HasCostColumns(df)
    /\ LET q2_cac == QuarterRows(df, CurrentQuarter(df))[1]["CAC"]
           q1_cac == QuarterRows(df, PriorQuarter(df))[1]["CAC"]
       IN  IsText(q1_cac) \/ (q1_cac > 0 /\ IsText(q2_cac))

\* the analysis computes with text (there are two periods to compute with)
NumericTypeError(df) ==
    /\ Len(quarters(df)) >= 2
    /\ (RevenueTypeError(df) \/ CustomerTypeError(df) \/ CostTypeError(df))

\* str(e) of the TypeError: Python's text names the operator and the operand
\* types; the model keeps the class of the exception
TypeErrorText == "TypeError"

\* a slip: the churn column read without looking at df.columns first
analyze_spreadsheet_KeyError(df) ==
    IF ~HasCustomerColumns(df)
    THEN Raise("Error analyzing spreadsheet: 'Churn_Rate'")
    ELSE IF QuarterIndexError(df) # ""
    THEN Raise("Error analyzing spreadsheet: " \o QuarterIndexError(df))
    ELSE Return([revenue |-> RevenueSection(df),
                 customer_metrics |-> CustomerSection(df),
                 costs |-> CostSection(df)])

analyze_spreadsheet(df) ==
    IF QuarterIndexError(df) # ""
    THEN Raise("Error analyzing spreadsheet: " \o QuarterIndexError(df))
    ELSE IF NumericTypeError(df)
    THEN Raise("Error analyzing spreadsheet: " \o TypeErrorText)
    ELSE Return([revenue |-> RevenueSection(df),
                 customer_metrics |-> CustomerSection(df),
                 costs |-> CostSection(df)])

-----------------------------------------------------------------------------
(* InsightsGenerator: the narrative *)

\* a slip: a section that carries figures taken as present, marker or not
PresentWhenFigures(metrics, section) ==
    /\ section \in DOMAIN metrics
    /\ DOMAIN metrics[section] # {"error"}

\* a section of the metrics dict that is there and carries no "error" key
Present(metrics, section) ==
    section \in DOMAIN metrics /\ "error" \notin DOMAIN metrics[section]

analyze_pdf_metrics(pdf_data) ==
    LET metrics == Get(pdf_data, "metrics", EmptyDict)
    IN  [customer_feedback |-> Get(metrics, "customer_feedback", "No feedback available"),
         sentiment |-> Get(metrics, "sentiment", "Neutral sentiment")]

\* f"{total / 1e6:.1f}": millions with one decimal
StrMillions(total) == StrTenths(RoundHalfEven(total, 100000))

RevenueSentence(revenue) ==
    "Revenue: $" \o StrMillions(revenue.total_q2) \o "M, up "
        \o StrTenths(revenue.growth_qoq) \o "% QoQ, driven by " \o revenue.top_region

ChurnSentence(customer_metrics) ==
    LET churn_status == IF customer_metrics.churn_change > 0 THEN "stabilized"
                        ELSE "increased"
    IN  "Churn: " \o churn_status \o " at " \o StrTenths(customer_metrics.churn_q2)
            \o "%, " \o (IF customer_metrics.churn_change > 0 THEN "down" ELSE "up")
            \o " " \o StrTenths(Abs(customer_metrics.churn_change)) \o "% QoQ"

NpsSentence(customer_metrics) == "NPS: Improved to " \o Str(customer_metrics.nps_q2)

CacSentence(costs) ==
    "CAC: Reduced by " \o StrTenths(costs.cac_reduction) \o "% to $" \o Str(costs.cac_q2)

RevenueFallback == "Revenue: Insufficient data for analysis"

CustomerFallback == "Customer Metrics: Insufficient data for analysis"

CostFallback == "Costs: Insufficient data for analysis"

\* a slip: the cost sentence appended before the customer sentences
generate_executive_summary_CostsFirst(metrics) ==
    (IF Present(metrics, "revenue")
        THEN <<RevenueSentence(metrics["revenue"])>>
        ELSE <<RevenueFallback>>)
    \o (IF Present(metrics, "costs")
        THEN <<CacSentence(metrics["costs"])>>
        ELSE <<CostFallback>>)
    \o (IF Present(metrics, "customer_metrics")
        THEN <<ChurnSentence(metrics["customer_metrics"]),
               NpsSentence(metrics["customer_metrics"])>>
        ELSE <<CustomerFallback>>)
    \o (IF "pdf_feedback" \in DOMAIN metrics
        THEN <<"Customer Feedback: " \o metrics["pdf_feedback"].customer_feedback>>
        ELSE <<>>)

generate_executive_summary(metrics) ==
    (IF Present(metrics, "revenue")
        THEN <<RevenueSentence(metrics["revenue"])>>
        ELSE <<RevenueFallback>>)
    \o (IF Present(metrics, "customer_metrics")
        THEN <<ChurnSentence(metrics["customer_metrics"]),
               NpsSentence(metrics["customer_metrics"])>>
        ELSE <<CustomerFallback>>)
    \o (IF Present(metrics, "costs")
        THEN <<CacSentence(metrics["costs"])>>
        ELSE <<CostFallback>>)
    \o (IF "pdf_feedback" \in DOMAIN metrics
        THEN <<"Customer Feedback: " \o metrics["pdf_feedback"].customer_feedback>>
        ELSE <<>>)

\* growth_qoq > 5 (percent): 50 tenths
RevenueRecommendation(revenue) ==
    IF revenue.growth_qoq > 50
    THEN "Increase investment in " \o revenue.top_region
             \o " to capitalize on strong growth"
    ELSE "Review underperforming regions for optimization"

ChurnRecommendation(customer_metrics) ==
    IF customer_metrics.churn_change < 0
    THEN "Launch targeted retention campaigns to address rising churn"
    ELSE "Maintain retention strategies to sustain low churn"

NpsRecommendation(customer_metrics) ==
    IF customer_metrics.nps_change > 0
    THEN "Leverage positive NPS feedback in marketing campaigns"
    ELSE "Investigate NPS decline and enhance customer experience"

\* cac_reduction > 5 (percent): 50 tenths
CostRecommendation(costs) ==
    IF costs.cac_reduction > 50
    THEN "Continue optimizing marketing channels to sustain CAC reduction"
    ELSE "Reassess marketing spend efficiency to reduce CAC"

NoRecommendations == "No actionable recommendations based on available data"

\* a slip: the NPS test chained to the churn test (elif), so that a bundle
\* whose churn rose gets no NPS recommendation
generate_recommendations_Chained(metrics) ==
    LET recommendations ==
            (IF Present(metrics, "revenue")
                THEN <<RevenueRecommendation(metrics["revenue"])>> ELSE <<>>)
            \o (IF Present(metrics, "customer_metrics")
                THEN IF metrics["customer_metrics"].churn_change < 0
                     THEN <<ChurnRecommendation(metrics["customer_metrics"])>>
                     ELSE <<ChurnRecommendation(metrics["customer_metrics"]),
                            NpsRecommendation(metrics["customer_metrics"])>>
                ELSE <<>>)
            \o (IF Present(metrics, "costs")
                THEN <<CostRecommendation(metrics["costs"])>> ELSE <<>>)
    IN  IF recommendations # <<>> THEN recommendations ELSE <<NoRecommendations>>

generate_recommendations(metrics) ==
    LET recommendations ==
            (IF Present(metrics, "revenue")
                THEN <<RevenueRecommendation(metrics["revenue"])>> ELSE <<>>)
            \o (IF Present(metrics, "customer_metrics")
                THEN <<ChurnRecommendation(metrics["customer_metrics"]),
                       NpsRecommendation(metrics["customer_metrics"])>>
                ELSE <<>>)
            \o (IF Present(metrics, "costs")
                THEN <<CostRecommendation(metrics["costs"])>> ELSE <<>>)
    IN  IF recommendations # <<>> THEN recommendations ELSE <<NoRecommendations>>

-----------------------------------------------------------------------------
(* InsightsGenerator.generate_insights *)

RECURSIVE AnalyzeSpreadsheets(_, _)
\* the loop over parsed_data["spreadsheets"]: each result is merged into the
\* dict built so far; an exception leaves the loop
AnalyzeSpreadsheets(spreadsheets, metrics) ==
    IF spreadsheets = <<>> THEN Return(metrics)
    ELSE LET r == analyze_spreadsheet(spreadsheets[1].data)
         IN  IF r.raised THEN r
             ELSE AnalyzeSpreadsheets(Tail(spreadsheets), Update(metrics, r.value))

RECURSIVE AnalyzePdfs(_, _)
\* the loop over parsed_data["pdfs"]: each one overwrites "pdf_feedback"
AnalyzePdfs(pdfs, metrics) ==
    IF pdfs = <<>> THEN metrics
    ELSE AnalyzePdfs(Tail(pdfs),
             Update(metrics, [pdf_feedback |-> analyze_pdf_metrics(pdfs[1].data)]))

\* a slip: the dict of the last call kept (a module-level dict) and updated
StaleInsights == Get(insights, "metrics", EmptyDict)

\* the dict the analysis starts from: a fresh one on every call
FreshInsights == EmptyDict

generate_insights(pd) ==
    LET sheets == AnalyzeSpreadsheets(pd.spreadsheets, FreshInsights)
    IN  IF sheets.raised
        THEN Raise("Error generating insights: " \o sheets.error)
        ELSE LET metrics == AnalyzePdfs(pd.pdfs, sheets.value)
             IN  Return([metrics |-> metrics,
                         summary |-> generate_executive_summary(metrics),
                         recommendations |-> generate_recommendations(metrics)])

-----------------------------------------------------------------------------
(* SlideGenerator *)

TEMPLATES ==
    [saas |->
        [font |-> "Roboto",
         color_scheme |->
             [primary |-> "#0052cc", background |-> "#ffffff", accent |-> "#36A2EB"],
         title_font_size |-> "2.5em",
         body_font_size |-> "1.2em"],
     finance |->
        [font |-> "Lato",
         color_scheme |->
             [primary |-> "#1a3c34", background |-> "#f5f6f5", accent |-> "#2e7d32"],
         title_font_size |-> "2.5em",
         body_font_size |-> "1.2em"],
     retail |->
        [font |-> "Open Sans",
         color_scheme |->
             [primary |-> "#d81b60", background |-> "#ffffff", accent |-> "#f06292"],
         title_font_size |-> "2.5em",
         body_font_size |-> "1.2em"]]

colors == <<"#36A2EB", "#FF6384", "#FFCE56">>

\* df[df["Quarter"] == "Q1 2025"][df["Region"] == region]["Revenue"]
Q1RegionRows(df, region) ==
    SelectSeq(df.rows, LAMBDA r : r["Quarter"] = "Q1 2025" /\ r["Region"] = region)

\* .iloc[0] of an empty selection raises IndexError
Q1LookupFails(revenue_data, df) ==
    \E i \in 1..Len(revenue_data) : Q1RegionRows(df, revenue_data[i].Region) = <<>>

ChartTitle(text) == [plugins |-> [title |-> [display |-> TRUE, text |-> text]]]

\* a slip: a dataset given the current revenues of all regions as its series
LineDatasetAllRegions(i, region, q1_revenues, q2_revenues) ==
    [label |-> region,
     data |-> q2_revenues,
     borderColor |-> colors[((i - 1) % Len(colors)) + 1],
     fill |-> FALSE]

\* one dataset of the line chart; i counts from 1, enumerate() from 0
LineDataset(i, region, q1_revenues, q2_revenues) ==
    [label |-> region,
     data |-> <<q1_revenues[i], q2_revenues[i]>>,
     borderColor |-> colors[((i - 1) % Len(colors)) + 1],
     fill |-> FALSE]

LineChart(revenue, df) ==
    LET revenue_data == revenue.by_region
        regions == [i \in 1..Len(revenue_data) |-> revenue_data[i].Region]
        q2_revenues == [i \in 1..Len(revenue_data) |-> revenue_data[i].Revenue]
        q1_revenues == [i \in 1..Len(revenue_data) |->
                           Q1RegionRows(df, revenue_data[i].Region)[1]["Revenue"]]
    IN  [type |-> "line",
         data |->
             [labels |-> <<"Q1 2025", "Q2 2025">>,
              datasets |-> [i \in 1..Len(regions) |->
                               LineDataset(i, regions[i], q1_revenues, q2_revenues)]],
         options |-> ChartTitle("Revenue Trends by Region")]

ChurnSeries(customer_metrics) ==
    <<customer_metrics.churn_q2 + customer_metrics.churn_change,
      customer_metrics.churn_q2>>

NpsSeries(customer_metrics) ==
    <<customer_metrics.nps_q2 - customer_metrics.nps_change, customer_metrics.nps_q2>>

BarChart(customer_metrics) ==
    [type |-> "bar",
     data |->
         [labels |-> <<"Q1 2025", "Q2 2025">>,
          datasets |->
              <<[label |-> "Churn Rate (%)",
                 data |-> ChurnSeries(customer_metrics),
                 backgroundColor |-> "#FF6384"],
                [label |-> "NPS",
                 data |-> NpsSeries(customer_metrics),
                 backgroundColor |-> "#36A2EB"]>>],
     options |-> ChartTitle("Churn Rate and NPS Comparison")]

generate_visualizations(metrics, df) ==
    IF Present(metrics, "revenue") /\ Q1LookupFails(metrics["revenue"].by_region, df)
    THEN Raise("Error generating visualizations: single positional indexer is out-of-bounds")
    ELSE Return(
             (IF Present(metrics, "revenue")
                 THEN <<LineChart(metrics["revenue"], df)>> ELSE <<>>)
             \o (IF Present(metrics, "customer_metrics")
                 THEN <<BarChart(metrics["customer_metrics"])>> ELSE <<>>))

\* a slip: another preset as the default
ResolveTemplateFinance(id) == Get(TEMPLATES, id, TEMPLATES["finance"])

\* TEMPLATES.get(template_id, TEMPLATES["saas"])
ResolveTemplate(id) == Get(TEMPLATES, id, TEMPLATES["saas"])

TitleSlide ==
    [title |-> "Q2 2025 Board Meeting",
     subtitle |-> "Financial & Customer Insights",
     type |-> "title"]

TextSlides(ins) ==
    <<[title |-> "Executive Summary",
       content |-> Get(ins, "summary", <<"No summary available">>),
       type |-> "text"],
      [title |-> "Strategic Recommendations",
       content |-> Get(ins, "recommendations", <<"No recommendations available">>),
       type |-> "text"]>>

ChartSlides(chart_list) ==
    IF chart_list # <<>>
    THEN <<[title |-> "Revenue Trends", chart |-> chart_list[1], type |-> "chart"]>>
         \o (IF Len(chart_list) > 1
             THEN <<[title |-> "Customer Metrics", chart |-> chart_list[2],
                     type |-> "chart"]>>
             ELSE <<>>)
    ELSE <<>>

\* a slip: the chart slides put right after the title slide
generate_slide_data_ChartsFirst(ins, chart_list, id) ==
    [slides |-> <<TitleSlide>> \o ChartSlides(chart_list) \o TextSlides(ins),
     template |-> ResolveTemplate(id)]

generate_slide_data(ins, chart_list, id) ==
    [slides |-> <<TitleSlide>> \o TextSlides(ins) \o ChartSlides(chart_list),
     template |-> ResolveTemplate(id)]

generate_slides(pd, ins, id) ==
    LET made == IF pd.spreadsheets = <<>> THEN Return(<<>>)
                ELSE generate_visualizations(ins["metrics"], pd.spreadsheets[1].data)
    IN  IF made.raised
        THEN Raise("Error generating slides: " \o made.error)
        ELSE Return([charts |-> made.value,
                     slide_data |-> generate_slide_data(ins, made.value, id)])

-----------------------------------------------------------------------------
(* The requests of the model *)

AllColumns == {"Quarter", "Region", "Revenue", "Churn_Rate", "NPS", "CAC", "Marketing_Spend"}

\* the spreadsheet of SAMPLE_DATA (the columns the pipeline never reads left out)
SampleRows ==
    <<[Quarter |-> "Q1 2025", Region |-> "APAC", Revenue |-> 4400000,
       Churn_Rate |-> 74, NPS |-> 55, CAC |-> 492, Marketing_Spend |-> 1650000],
      [Quarter |-> "Q1 2025", Region |-> "North America", Revenue |-> 4570000,
       Churn_Rate |-> 74, NPS |-> 55, CAC |-> 492, Marketing_Spend |-> 1650000],
      [Quarter |-> "Q1 2025", Region |-> "Europe", Revenue |-> 2380000,
       Churn_Rate |-> 74, NPS |-> 55, CAC |-> 492, Marketing_Spend |-> 1650000],
      [Quarter |-> "Q2 2025", Region |-> "APAC", Revenue |-> 5200000,
       Churn_Rate |-> 51, NPS |-> 62, CAC |-> 450, Marketing_Spend |-> 1500000],
      [Quarter |-> "Q2 2025", Region |-> "North America", Revenue |-> 4800000,
       Churn_Rate |-> 51, NPS |-> 62, CAC |-> 450, Marketing_Spend |-> 1500000],
      [Quarter |-> "Q2 2025", Region |-> "Europe", Revenue |-> 2500000,
       Churn_Rate |-> 51, NPS |-> 62, CAC |-> 450, Marketing_Spend |-> 1500000]>>

\* a DataFrame with the given columns: every row keeps those fields only
DataFrame(columns, rows) ==
    [columns |-> columns,
     rows |-> [i \in 1..Len(rows) |-> [c \in columns |-> rows[i][c]]]]

SAMPLE_DATA == DataFrame(AllColumns, SampleRows)

Periods == {"Q1 2025", "Q2 2025"}

Regions == {"APAC", "Europe"}

\* the customer and cost figures of a generated row: the APAC rows carry those of
\* SAMPLE_DATA, the Europe rows other ones (a prior CAC of 0, churn and NPS that
\* do not move or move the other way), so that the first rows of two periods
\* cover every branch of the extractor and the narrative
RowFigures(q, g) ==
    IF g = "APAC"
    THEN IF q = "Q1 2025"
         THEN [Churn_Rate |-> 74, NPS |-> 55, CAC |-> 492, Marketing_Spend |-> 1650000]
         ELSE [Churn_Rate |-> 51, NPS |-> 62, CAC |-> 450, Marketing_Spend |-> 1500000]
    ELSE IF q = "Q1 2025"
         THEN [Churn_Rate |-> 51, NPS |-> 62, CAC |-> 0, Marketing_Spend |-> 0]
         ELSE [Churn_Rate |-> 74, NPS |-> 55, CAC |-> 470, Marketing_Spend |-> 1500000]

GeneratedRow(q, g, v) ==
    [Quarter |-> q, Region |-> g, Revenue |-> v,
     Churn_Rate |-> RowFigures(q, g).Churn_Rate, NPS |-> RowFigures(q, g).NPS,
     CAC |-> RowFigures(q, g).CAC, Marketing_Spend |-> RowFigures(q, g).Marketing_Spend]

\* no revenue, and the two largest revenues
RevenueValues == {0, MaxRevenue - 1, MaxRevenue}

GeneratedRows == {GeneratedRow(q, g, v) : q \in Periods, g \in Regions, v \in RevenueValues}

\* the non-empty row lists of at most MaxRows generated rows (the parser rejects an
\* empty spreadsheet)
RowLists == UNION {[1..n -> GeneratedRows] : n \in 1..MaxRows}

\* all columns, or the spreadsheet with some of the optional columns removed
ColumnSets ==
    {AllColumns,
     AllColumns \ {"Churn_Rate"},
     AllColumns \ {"NPS"},
     AllColumns \ {"CAC", "Marketing_Spend"},
     AllColumns \ {"Churn_Rate", "NPS", "CAC", "Marketing_Spend"}}

Spreadsheet(df) == [filename |-> "q2_financials.csv", data |-> df]

\* what parse_pdf returns: the text and the (mocked) metrics
ParsedPdf == [filename |-> "report.pdf",
              data |-> [text |-> "",
                        metrics |-> [customer_feedback |-> "NPS improved to 62",
                                     sentiment |-> "Positive feedback on product features"]]]

\* a parsed PDF whose data carries no metrics
BarePdf == [filename |-> "scan.pdf", data |-> [text |-> ""]]

PdfLists == {<<>>, <<ParsedPdf>>, <<BarePdf>>, <<BarePdf, ParsedPdf>>}

TemplateIds == {"saas", "finance", "retail", "unknown_xyz", "SaaS", ""}

\* a request: the parsed files and the template identifier
Request(sheets, pdfs, id) ==
    [parsed_data |-> [spreadsheets |-> sheets, pdfs |-> pdfs], template_id |-> id]

\* one generated spreadsheet, no PDF, the default template
GeneratedRequests ==
    {Request(<<Spreadsheet(DataFrame(cols, rows))>>, <<>>, "saas") :
        cols \in ColumnSets, rows \in RowLists}

\* the sample spreadsheet, whole or with columns removed, with and without PDFs,
\* under every template identifier
SampleRequests ==
    {Request(<<Spreadsheet(DataFrame(x[1], SampleRows))>>, x[2], x[3]) :
        x \in ColumnSets \X PdfLists \X TemplateIds}

\* no spreadsheet at all
EmptyRequests == {Request(<<>>, pdfs, "saas") : pdfs \in PdfLists}

Requests == GeneratedRequests \cup SampleRequests \cup EmptyRequests

-----------------------------------------------------------------------------
(* upload_files: parse_files, then generate_insights, then generate_slides *)

NoReference == [pc |-> "none"]

\* the request has been parsed; nothing has been computed for it
Received(request) ==
    /\ parsed_data = request.parsed_data
    /\ template_id = request.template_id
    /\ pc = "parsed"
    /\ insights = EmptyDict
    /\ charts = <<>>
    /\ slide_data = EmptyDict
    /\ error = ""
    /\ reference = NoReference

Init == \E request \in Requests : Received(request)

GenerateInsights ==
    /\ pc = "parsed"
    /\ LET r == generate_insights(parsed_data)
       IN  IF r.raised
           THEN /\ pc' = "failed"
                /\ error' = "Error processing files: " \o r.error
                /\ UNCHANGED insights
           ELSE /\ pc' = "insights"
                /\ insights' = r.value
                /\ UNCHANGED error
    /\ UNCHANGED <<parsed_data, template_id, charts, slide_data, reference>>

GenerateSlides ==
    /\ pc = "insights"
    /\ LET r == generate_slides(parsed_data, insights, template_id)
       IN  IF r.raised
           THEN /\ pc' = "failed"
                /\ error' = "Error processing files: " \o r.error
                /\ UNCHANGED <<charts, slide_data>>
           ELSE /\ pc' = "done"
                /\ charts' = r.value.charts
                /\ slide_data' = r.value.slide_data
                /\ UNCHANGED error
    /\ UNCHANGED <<parsed_data, template_id, insights, reference>>

Next == GenerateInsights \/ GenerateSlides

Spec == Init /\ [][Next]_vars

-----------------------------------------------------------------------------
(* The narrative functions called on a metrics dict of any shape:           *)
(* generate_executive_summary, then generate_recommendations                *)

\* a section that carries the "error" key beside its figures
Marked(section) == Update(section, [error |-> "Insufficient data"])

RevenueFigures ==
    {[total_q2 |-> 12500000, growth_qoq |-> g, top_region |-> "APAC", by_region |-> <<>>] :
        g \in {-500, 0, 50, 51, 101}}

CustomerFigures ==
    {[churn_q2 |-> 51, churn_change |-> c, nps_q2 |-> 62, nps_change |-> n] :
        c \in {-23, 0, 23}, n \in {-7, 0, 7}}

CostFigures ==
    {[cac_q2 |-> 450, cac_reduction |-> r, marketing_spend |-> 1500000] :
        r \in {-93, 50, 51, 85}}

\* a section's shapes: its figures, the marker alone, the marker beside figures
SectionShapes(figures) ==
    figures \cup {[error |-> "Insufficient data"]} \cup {Marked(f) : f \in figures}

\* the dicts with the given section present in one of its shapes, or absent
WithSection(key, shapes) == {EmptyDict} \cup {[k \in {key} |-> shape] : shape \in shapes}

FeedbackEntries ==
    {EmptyDict,
     [pdf_feedback |-> analyze_pdf_metrics(ParsedPdf.data)],
     [pdf_feedback |-> analyze_pdf_metrics(BarePdf.data)]}

Bundles ==
    {Update(Update(Update(x[1], x[2]), x[3]), x[4]) :
        x \in WithSection("revenue", SectionShapes(RevenueFigures))
              \X WithSection("customer_metrics", SectionShapes(CustomerFigures))
              \X WithSection("costs", SectionShapes(CostFigures))
              \X FeedbackEntries}

InitNarrative ==
    /\ parsed_data = [spreadsheets |-> <<>>, pdfs |-> <<>>]
    /\ template_id = "saas"
    /\ pc = "metrics"
    /\ insights \in {[metrics |-> b] : b \in Bundles}
    /\ charts = <<>>
    /\ slide_data = EmptyDict
    /\ error = ""
    /\ reference = NoReference

CallExecutiveSummary ==
    /\ pc = "metrics"
    /\ insights' = Update(insights,
                       [summary |-> generate_executive_summary(insights["metrics"])])
    /\ pc' = "summarized"
    /\ UNCHANGED <<parsed_data, template_id, charts, slide_data, error, reference>>

CallRecommendations ==
    /\ pc = "summarized"
    /\ insights' = Update(insights,
                       [recommendations |-> generate_recommendations(insights["metrics"])])
    /\ pc' = "narrated"
    /\ UNCHANGED <<parsed_data, template_id, charts, slide_data, error, reference>>

NextNarrative == CallExecutiveSummary \/ CallRecommendations

SpecNarrative == InitNarrative /\ [][NextNarrative]_vars

-----------------------------------------------------------------------------
(* generate_slide_data called on a chart list of any shape *)

SampleInsights == generate_insights(Request(<<Spreadsheet(SAMPLE_DATA)>>, <<>>, "saas").parsed_data).value

SampleLineChart == LineChart(SampleInsights["metrics"]["revenue"], SAMPLE_DATA)

SampleBarChart == BarChart(SampleInsights["metrics"]["customer_metrics"])

ChartLists == UNION {[1..n -> {SampleLineChart, SampleBarChart}] : n \in 0..MaxCharts}

\* what generate_insights returns for the sample requests, and dicts that lack
\* the summary or the recommendations
InsightsValues ==
    LET returned == {generate_insights(r.parsed_data).value : r \in SampleRequests}
    IN  returned
        \cup {[k \in {"metrics", "summary"} |-> v[k]] : v \in returned}
        \cup {[k \in {"metrics", "recommendations"} |-> v[k]] : v \in returned}

InitAssembler ==
    /\ parsed_data = [spreadsheets |-> <<>>, pdfs |-> <<>>]
    /\ template_id \in TemplateIds
    /\ pc = "charts"
    /\ insights \in InsightsValues
    /\ charts \in ChartLists
    /\ slide_data = EmptyDict
    /\ error = ""
    /\ reference = NoReference

CallGenerateSlideData ==
    /\ pc = "charts"
    /\ slide_data' = generate_slide_data(insights, charts, template_id)
    /\ pc' = "assembled"
    /\ UNCHANGED <<parsed_data, template_id, insights, charts, error, reference>>

NextAssembler == CallGenerateSlideData

SpecAssembler == InitAssembler /\ [][NextAssembler]_vars

-----------------------------------------------------------------------------
(* Requests served one after the other by the same process.  A new request  *)
(* leaves whatever the last one computed where it is: nothing in the        *)
(* pipeline may read it.                                                    *)

\* a single-period spreadsheet: generate_insights raises on it
SinglePeriodRows == <<GeneratedRow("Q2 2025", "APAC", MaxRevenue)>>

\* a current-period region without a Q1 2025 row: generate_slides raises on it
UnmatchedRegionRows ==
    <<GeneratedRow("Q1 2025", "APAC", MaxRevenue), GeneratedRow("Q2 2025", "Europe", MaxRevenue)>>

RunRequests ==
    {Request(<<Spreadsheet(DataFrame(x[1], SampleRows))>>, x[2], x[3]) :
        x \in {AllColumns, AllColumns \ {"NPS"}} \X {<<>>, <<ParsedPdf>>}
              \X {"saas", "finance"}}
    \cup {Request(<<Spreadsheet(DataFrame(AllColumns, SinglePeriodRows))>>, <<>>, "saas"),
          Request(<<Spreadsheet(DataFrame(AllColumns, UnmatchedRegionRows))>>, <<>>, "saas"),
          Request(<<>>, <<ParsedPdf>>, "retail")}

InitRuns == \E request \in RunRequests : Received(request)

Finished == pc \in {"done", "failed"}

\* keep the finished request for comparison with a later one
Remember ==
    /\ Finished
    /\ reference' = [pc |-> pc, parsed_data |-> parsed_data, template_id |-> template_id,
                     slide_data |-> slide_data, error |-> error, others |-> FALSE]
    /\ UNCHANGED <<parsed_data, template_id, pc, insights, charts, slide_data, error>>

\* the next request arrives; "others" records that a request with other inputs
\* than the remembered one has been served since
NewRequest ==
    /\ Finished
    /\ \E request \in RunRequests :
        /\ parsed_data' = request.parsed_data
        /\ template_id' = request.template_id
        /\ reference' =
               IF reference.pc # "none"
                  /\ <<reference.parsed_data, reference.template_id>>
                         # <<request.parsed_data, request.template_id>>
               THEN [reference EXCEPT !.others = TRUE]
               ELSE reference
    /\ pc' = "parsed"
    /\ UNCHANGED <<insights, charts, slide_data, error>>

NextRuns == GenerateInsights \/ GenerateSlides \/ Remember \/ NewRequest

SpecRuns == InitRuns /\ [][NextRuns]_vars

-----------------------------------------------------------------------------
(* Properties *)

\* s contains sub
Contains(s, sub) ==
    \E i \in 1..(Len(s) - Len(sub) + 1) : SubSeq(s, i, i + Len(sub) - 1) = sub

\* generate_insights has returned for the request
InsightsReturned == pc \in {"insights", "done"} \/ (pc = "failed" /\ insights # EmptyDict)

\* the request is for exactly one spreadsheet; TheSheet is its DataFrame
OneSheet == Len(parsed_data.spreadsheets) = 1

TheSheet == parsed_data.spreadsheets[1].data

Metrics == insights["metrics"]

\* the request ended in an exception of the named stage
FailedIn(stage) == pc = "failed" /\ Contains(error, stage)

SampleSheetRequest == parsed_data.spreadsheets = <<Spreadsheet(SAMPLE_DATA)>>

\* C1 as amended: on the six records of SAMPLE_DATA the request does not fail
\* in generate_insights, total current revenue is 12,500,000, growth_qoq is 10.1
\* ((12,500,000 - 11,350,000) / 11,350,000 * 100 = 10.13), top_region is "APAC",
\* churn_change is 2.3, cac_reduction is 8.5, and the first summary sentence
\* contains "$12.5M", "10.1%" and "APAC".
C1_SampleFigures ==
    SampleSheetRequest =>
        /\ ~FailedIn("Error generating insights")
        /\ InsightsReturned =>
            /\ Metrics["revenue"].total_q2 = 12500000
            /\ Metrics["revenue"].growth_qoq = 101
            /\ Metrics["revenue"].top_region = "APAC"
            /\ Metrics["customer_metrics"].churn_change = 23
            /\ Metrics["costs"].cac_reduction = 85
            /\ Contains(insights["summary"][1], "$12.5M")
            /\ Contains(insights["summary"][1], "10.1%")
            /\ Contains(insights["summary"][1], "APAC")

\* C1 as stated: the same, with growth_qoq 13.6 and "13.6%" in the first sentence.
C1_AsStated ==
    (SampleSheetRequest /\ InsightsReturned) =>
        /\ Metrics["revenue"].total_q2 = 12500000
        /\ Metrics["revenue"].growth_qoq = 136
        /\ Metrics["revenue"].top_region = "APAC"
        /\ Metrics["customer_metrics"].churn_change = 23
        /\ Metrics["costs"].cac_reduction = 85
        /\ Contains(insights["summary"][1], "$12.5M")
        /\ Contains(insights["summary"][1], "13.6%")
        /\ Contains(insights["summary"][1], "APAC")

\* the insights of the sample spreadsheet have been returned
C1_Witness == SampleSheetRequest /\ pc = "insights"

AllColumnsPresent == TheSheet.columns = AllColumns

\* C2 as stated: a spreadsheet with every column and fewer than 2 distinct periods
\* does not make the analysis fail: the bundle comes back with the revenue
\* section marked insufficient and the customer-metrics and cost sections computed.
C2_SinglePeriodDegrades ==
    (OneSheet /\ AllColumnsPresent /\ Len(quarters(TheSheet)) < 2) =>
        /\ ~FailedIn("Error analyzing spreadsheet")
        /\ InsightsReturned =>
            /\ "error" \in DOMAIN Metrics["revenue"]
            /\ Present(Metrics, "customer_metrics")
            /\ Present(Metrics, "costs")

\* the rows of the current and of the prior period of the request's spreadsheet
CurrentRows == QuarterRows(TheSheet, CurrentQuarter(TheSheet))

PriorRows == QuarterRows(TheSheet, PriorQuarter(TheSheet))

TwoPeriods == OneSheet /\ Len(quarters(TheSheet)) >= 2

\* the churn-rate and/or NPS column is removed, every other column is there
CustomerColumnsRemoved ==
    /\ ~HasCustomerColumns(TheSheet)
    /\ AllColumns \ {"Churn_Rate", "NPS"} \subseteq TheSheet.columns

C4_ZeroPrior ==
    TwoPeriods =>
        /\ ~FailedIn("Error generating insights")
        /\ InsightsReturned =>
            /\ SumRevenue(PriorRows) = 0 => Metrics["revenue"].growth_qoq = 0
            /\ (HasCostColumns(TheSheet) /\ PriorRows[1]["CAC"] = 0) =>
                   Metrics["costs"].cac_reduction = 0

\* prior revenue and prior CAC are 0, current revenue and current CAC are not
C4_Witness ==
    /\ TwoPeriods /\ InsightsReturned /\ HasCostColumns(TheSheet)
    /\ SumRevenue(PriorRows) = 0 /\ Metrics["revenue"].total_q2 > 0
    /\ PriorRows[1]["CAC"] = 0 /\ Metrics["costs"].cac_q2 > 0

\* C5: with at least 2 distinct periods and all columns, the returned total is
\* the revenue summed over the rows of the current period, and growth_qoq is
\* (total - prior) / prior * 100 to the nearest tenth, prior being the revenue
\* summed over the rows of the prior period, when that is positive.  (growth_qoq
\* and the comparison are in tenths: the exact value is 1000 * (total - prior) /
\* prior, and the nearest tenth is at most half a tenth away from it.)
C5_GrowthFormula ==
    (TwoPeriods /\ AllColumnsPresent /\ InsightsReturned) =>
        LET total == Metrics["revenue"].total_q2
            prior == SumRevenue(PriorRows)
            growth == Metrics["revenue"].growth_qoq
        IN  /\ total = SumRevenue(CurrentRows)
            /\ prior > 0 => 2 * Abs(growth * prior - 1000 * (total - prior)) <= prior

\* a growth that is not a whole number of tenths: rounding has acted
C5_Witness ==
    /\ TwoPeriods /\ AllColumnsPresent /\ InsightsReturned
    /\ SumRevenue(PriorRows) > 0
    /\ (1000 * (Metrics["revenue"].total_q2 - SumRevenue(PriorRows)))
           % SumRevenue(PriorRows) # 0
    /\ Len(PriorRows) > 1

\* C6: generate_slide_data returns, for each of "saas", "finance" and "retail",
\* that identifier's own preset, and for any other identifier exactly the
\* style template it returns for "saas".
C6_TemplateFallback ==
    pc = "assembled" =>
        /\ template_id = "saas" => slide_data.template.font = "Roboto"
        /\ template_id = "finance" =>
               /\ slide_data.template.font = "Lato"
               /\ slide_data.template.color_scheme.primary = "#1a3c34"
        /\ template_id = "retail" =>
               /\ slide_data.template.font = "Open Sans"
               /\ slide_data.template.color_scheme.primary = "#d81b60"
        /\ template_id \notin {"saas", "finance", "retail"} =>
               /\ slide_data.template = generate_slide_data(insights, charts, "saas").template
               /\ slide_data.template.font = "Roboto"
               /\ slide_data.template.color_scheme.primary = "#0052cc"

\* a deck assembled under an identifier the registry does not hold
C6_Witness == pc = "assembled" /\ template_id = "unknown_xyz" /\ "template" \in DOMAIN slide_data

\* C7: a request's outcome is a function of its parsed files and template
\* identifier alone: whenever a finished request has the inputs of a remembered
\* earlier one, it ended the same way, with the same deck (or the same error),
\* whatever was served in between.
C7_SameInputsSameDeck ==
    (/\ Finished
     /\ reference.pc # "none"
     /\ reference.parsed_data = parsed_data
     /\ reference.template_id = template_id) =>
        /\ reference.pc = pc
        /\ pc = "done" => reference.slide_data = slide_data
        /\ pc = "failed" => reference.error = error

\* the remembered request served again, after a request with other inputs
C7_Witness ==
    /\ pc = "done"
    /\ reference.pc = "done"
    /\ reference.others
    /\ reference.parsed_data = parsed_data
    /\ reference.template_id = template_id
    /\ Len(slide_data.slides) = 5

\* a section of the dict that carries the insufficient-data marker
Insufficient(metrics, section) ==
    section \in DOMAIN metrics /\ "error" \in DOMAIN metrics[section]

\* the dict with every marked section reduced to its marker
Stripped(metrics) ==
    [k \in DOMAIN metrics |->
        IF "error" \in DOMAIN metrics[k] THEN [error |-> metrics[k].error]
        ELSE metrics[k]]

\* the recommendations the sections of the dict that carry no marker give rise to
ExpectedRecommendationCount(metrics) ==
    (IF "revenue" \in DOMAIN metrics /\ ~Insufficient(metrics, "revenue") THEN 1 ELSE 0)
    + (IF "customer_metrics" \in DOMAIN metrics /\ ~Insufficient(metrics, "customer_metrics")
       THEN 2 ELSE 0)
    + (IF "costs" \in DOMAIN metrics /\ ~Insufficient(metrics, "costs") THEN 1 ELSE 0)

\* C8: a section that carries the insufficient-data marker gets its fixed
\* fallback sentence in the summary (revenue first, customer metrics second,
\* costs after the customer sentences) and no recommendation; summary and
\* recommendations are those of the dict with the marked sections reduced to
\* their marker, so no figure beside a marker is read.
C8_MarkedSectionsNotRead ==
    pc = "narrated" =>
        LET m == insights["metrics"]
            summary == insights["summary"]
            recommendations == insights["recommendations"]
            expected == ExpectedRecommendationCount(m)
        IN  /\ Insufficient(m, "revenue") =>
                   summary[1] = "Revenue: Insufficient data for analysis"
            /\ Insufficient(m, "customer_metrics") =>
                   summary[2] = "Customer Metrics: Insufficient data for analysis"
            /\ Insufficient(m, "costs") =>
                   summary[IF "customer_metrics" \in DOMAIN m
                              /\ ~Insufficient(m, "customer_metrics") THEN 4 ELSE 3]
                       = "Costs: Insufficient data for analysis"
            /\ IF expected = 0
               THEN recommendations
                        = <<"No actionable recommendations based on available data">>
               ELSE Len(recommendations) = expected
            /\ summary = generate_executive_summary(Stripped(m))
            /\ recommendations = generate_recommendations(Stripped(m))

\* a marked section that carries figures, beside a section that is present
C8_Witness ==
    /\ pc = "narrated"
    /\ Insufficient(insights["metrics"], "revenue")
    /\ "growth_qoq" \in DOMAIN insights["metrics"]["revenue"]
    /\ Insufficient(insights["metrics"], "costs")
    /\ "cac_reduction" \in DOMAIN insights["metrics"]["costs"]
    /\ Present(insights["metrics"], "customer_metrics")
    /\ Len(insights["recommendations"]) = 2

\* C9: every data series of every chart generate_visualizations produced has as
\* many points as the chart has category labels.
C9_SeriesAligned ==
    pc = "done" =>
        \A i \in 1..Len(charts) :
            \A j \in 1..Len(charts[i].data.datasets) :
                Len(charts[i].data.datasets[j].data) = Len(charts[i].data.labels)

\* a line chart of three regions and a bar chart
C9_Witness ==
    /\ pc = "done"
    /\ Len(charts) = 2
    /\ charts[1].type = "line" /\ Len(charts[1].data.datasets) = 3
    /\ charts[2].type = "bar" /\ Len(charts[2].data.datasets) = 2

\* C10: the deck of generate_slide_data is a "title" slide, a "text" slide with
\* the summary sentences in order, a "text" slide with the recommendation
\* sentences in order, then "chart" slides only, whatever the chart list is.
C10_DeckOrder ==
    pc = "assembled" =>
        LET slides == slide_data.slides
        IN  /\ Len(slides) >= 3
            /\ slides[1].type = "title"
            /\ slides[2].type = "text"
            /\ "summary" \in DOMAIN insights => slides[2].content = insights["summary"]
            /\ slides[3].type = "text"
            /\ "recommendations" \in DOMAIN insights =>
                   slides[3].content = insights["recommendations"]
            /\ \A i \in 4..Len(slides) : slides[i].type = "chart"

\* a deck with chart slides after its three leading slides
C10_Witness ==
    /\ pc = "assembled"
    /\ Len(charts) = 2
    /\ Len(slide_data.slides) = 5
    /\ "summary" \in DOMAIN insights /\ "recommendations" \in DOMAIN insights

\* the title that names the subject of a chart
SubjectTitle(chart) ==
    IF chart.type = "line" THEN "Revenue Trends" ELSE "Customer Metrics"

\* C11 as stated: the deck of generate_slide_data has, after its three leading
\* slides, exactly one "chart" slide per chart of the list, in list order, each
\* embedding its chart and titled by that chart's subject: "Revenue Trends" for
\* a revenue line chart, "Customer Metrics" for a customer bar chart.
C11_ChartSlideTitles ==
    pc = "assembled" =>
        LET slides == slide_data.slides
        IN  /\ Len(slides) = 3 + Len(charts)
            /\ \A i \in 1..Len(charts) :
                   /\ slides[3 + i].type = "chart"
                   /\ slides[3 + i].chart = charts[i]
                   /\ slides[3 + i].title = SubjectTitle(charts[i])

\* a region of the current period has no row in the prior period
RegionWithoutPrior ==
    \E i \in 1..Len(CurrentRows) :
        \A j \in 1..Len(PriorRows) : PriorRows[j]["Region"] # CurrentRows[i]["Region"]

\* C12 as stated: when a region present in the current period has no row in the
\* prior period, generate_visualizations does not raise: the request goes on to
\* its deck, with a line chart that has one series per current-period row.
C12_MissingPriorRegion ==
    (TwoPeriods /\ RegionWithoutPrior) =>
        /\ ~FailedIn("Error generating visualizations")
        /\ pc = "done" =>
               /\ charts # <<>>
               /\ charts[1].type = "line"
               /\ Len(charts[1].data.datasets) = Len(CurrentRows)

-----------------------------------------------------------------------------
(* Requests whose spreadsheet holds text in a cell of a numeric column *)

NumericColumns == {"Revenue", "Churn_Rate", "NPS", "CAC", "Marketing_Spend"}

\* rows with the cell of row i, column c replaced by text
WithText(rows, i, c) == [rows EXCEPT ![i][c] = Text]

\* one region over two periods, the prior CAC being 0
ZeroPriorCacRows ==
    <<GeneratedRow("Q1 2025", "Europe", MaxRevenue), GeneratedRow("Q2 2025", "Europe", MaxRevenue)>>

\* the sample rows, and the two rows above, with one numeric cell replaced
TextRowLists ==
    {WithText(base, i, c) :
        base \in {SampleRows}, i \in 1..Len(SampleRows), c \in NumericColumns}
    \cup {WithText(base, i, c) :
        base \in {ZeroPriorCacRows}, i \in 1..Len(ZeroPriorCacRows), c \in NumericColumns}

MalformedRequests ==
    {Request(<<Spreadsheet(DataFrame(x[1], x[2]))>>, x[3], "saas") :
        x \in {AllColumns, AllColumns \ {"NPS"}} \X TextRowLists \X PdfLists}

InitMalformed == \E request \in MalformedRequests : Received(request)

SpecMalformed == InitMalformed /\ [][Next]_vars

\* some cell of a numeric column of the spreadsheet holds text
HasTextCell(df) ==
    \E i \in 1..Len(df.rows) :
        \E c \in df.columns \cap NumericColumns : IsText(df.rows[i][c])

\* C13 as stated: if any present field among revenue, churn rate, NPS, CAC or
\* marketing spend holds a non-numeric value, the analysis aborts with an error
\* of analyze_spreadsheet: generate_insights never returns a bundle for the
\* request.
C13_MalformedAborts ==
    (OneSheet /\ HasTextCell(TheSheet)) =>
        /\ ~InsightsReturned
        /\ pc # "parsed" => FailedIn("Error analyzing spreadsheet")

\* the regions of the current period, in the order of their first rows
CurrentRegions == Unique([i \in 1..Len(CurrentRows) |-> CurrentRows[i]["Region"]])

\* the revenue of region g summed over the rows of the current period
CurrentRevenueOf(g) == SumRevenue(SelectSeq(CurrentRows, LAMBDA r : r["Region"] = g))

\* C14 as stated: top_region is a region of the current period whose summed
\* current-period revenue is maximal, and among the regions that reach the
\* maximum it is the one whose first row comes first in the input.
C14_TopRegionFirstSeen ==
    (TwoPeriods /\ InsightsReturned) =>
        \E k \in 1..Len(CurrentRegions) :
            /\ CurrentRegions[k] = Metrics["revenue"].top_region
            /\ \A j \in 1..Len(CurrentRegions) :
                   CurrentRevenueOf(CurrentRegions[j]) <= CurrentRevenueOf(CurrentRegions[k])
            /\ \A j \in 1..(k - 1) :
                   CurrentRevenueOf(CurrentRegions[j]) < CurrentRevenueOf(CurrentRegions[k])

-----------------------------------------------------------------------------
(* Requests whose spreadsheet spans up to three periods, in any row order *)

PeriodLabels == {"Q1 2025", "Q2 2025", "Q3 2025"}

\* a row of the third period carries figures of its own
PeriodRow(q, g, v) ==
    IF q = "Q3 2025"
    THEN [Quarter |-> q, Region |-> g, Revenue |-> v,
          Churn_Rate |-> 60, NPS |-> 58, CAC |-> 430, Marketing_Spend |-> 1400000]
    ELSE GeneratedRow(q, g, v)

PeriodRows == {PeriodRow(q, g, v) : q \in PeriodLabels, g \in Regions, v \in {0, MaxRevenue}}

PeriodRowLists == UNION {[1..n -> PeriodRows] : n \in 1..MaxRows}

PeriodRequests ==
    {Request(<<Spreadsheet(DataFrame(AllColumns, rows))>>, <<>>, "saas") :
        rows \in PeriodRowLists}

InitPeriods == \E request \in PeriodRequests : Received(request)

SpecPeriods == InitPeriods /\ [][Next]_vars

\* the period labels of the spreadsheet
Labels(df) == {df.rows[i]["Quarter"] : i \in 1..Len(df.rows)}

\* the first row of the spreadsheet that carries label q
FirstRow(df, q) ==
    CHOOSE i \in 1..Len(df.rows) :
        /\ df.rows[i]["Quarter"] = q
        /\ \A j \in 1..(i - 1) : df.rows[j]["Quarter"] # q

\* the label whose first appearance is latest, and the one whose first
\* appearance is second latest
LatestPeriod(df) ==
    CHOOSE q \in Labels(df) : \A p \in Labels(df) : FirstRow(df, p) <= FirstRow(df, q)

SecondLatestPeriod(df) ==
    CHOOSE q \in Labels(df) \ {LatestPeriod(df)} :
        \A p \in Labels(df) \ {LatestPeriod(df)} : FirstRow(df, p) <= FirstRow(df, q)

\* the spreadsheet without the rows of any period but the two latest
TwoLatestOnly(df) ==
    [columns |-> df.columns,
     rows |-> SelectSeq(df.rows,
                  LAMBDA r : r["Quarter"] \in {LatestPeriod(df), SecondLatestPeriod(df)})]

\* C15: with 2 or more distinct periods, every figure of the bundle is computed
\* from the rows of two periods, "current" being the label whose first
\* appearance in the input is latest and "prior" the one whose first appearance
\* is second latest: the total and the region breakdown are those of the
\* current-period rows, growth is taken against the prior-period total, the
\* customer and cost figures are those of the first current and first prior
\* row, and the bundle is the one of the spreadsheet with the rows of every
\* other period removed.
C15_TwoLatestPeriods ==
    (TwoPeriods /\ AllColumnsPresent /\ InsightsReturned) =>
        LET current == QuarterRows(TheSheet, LatestPeriod(TheSheet))
            prior == QuarterRows(TheSheet, SecondLatestPeriod(TheSheet))
        IN  /\ Metrics["revenue"].total_q2 = SumRevenue(current)
            /\ Metrics["revenue"].by_region = RegionRecords(current)
            /\ Metrics["revenue"].growth_qoq
                   = RevenueGrowth(SumRevenue(current), SumRevenue(prior))
            /\ Metrics["customer_metrics"].churn_q2 = current[1]["Churn_Rate"]
            /\ Metrics["customer_metrics"].churn_change
                   = prior[1]["Churn_Rate"] - current[1]["Churn_Rate"]
            /\ Metrics["customer_metrics"].nps_q2 = current[1]["NPS"]
            /\ Metrics["customer_metrics"].nps_change = current[1]["NPS"] - prior[1]["NPS"]
            /\ Metrics["costs"].cac_q2 = current[1]["CAC"]
            /\ Metrics["costs"].cac_reduction
                   = CacReduction(current[1]["CAC"], prior[1]["CAC"])
            /\ Metrics["costs"].marketing_spend = current[1]["Marketing_Spend"]
            /\ Metrics = analyze_spreadsheet(TwoLatestOnly(TheSheet)).value

\* three periods out of calendar order: the rows of the first one met are in
\* neither of the two periods the figures come from
C15_Witness ==
    /\ OneSheet /\ AllColumnsPresent /\ pc = "insights"
    /\ [i \in 1..Len(TheSheet.rows) |-> TheSheet.rows[i]["Quarter"]]
           = <<"Q3 2025", "Q2 2025", "Q1 2025">>
    /\ TheSheet.rows[1]["Revenue"] > 0
    /\ Metrics["revenue"].total_q2 = TheSheet.rows[3]["Revenue"]

\* the revenue of region g summed over the rows of period q
RevenueOf(df, q, g) ==
    SumRevenue(SelectSeq(QuarterRows(df, q), LAMBDA r : r["Region"] = g))

\* the regions of period q, in the order of their first rows
RegionsOf(df, q) ==
    Unique([i \in 1..Len(QuarterRows(df, q)) |-> QuarterRows(df, q)[i]["Region"]])

\* C16 as stated: in the deck of a request whose revenue section is present,
\* the first chart is the line chart, its labels are the prior and the current
\* period label the extractor used, in that order, and it has one series per
\* region of the current period, in first-seen order, whose data is [the
\* region's prior-period revenue, the region's current-period revenue]; when
\* the revenue section is insufficient there is no line chart.
C16_LineChartPeriods ==
    (OneSheet /\ pc = "done") =>
        LET current == LatestPeriod(TheSheet)
            regions == RegionsOf(TheSheet, current)
        IN  IF Present(Metrics, "revenue")
            THEN /\ charts # <<>>
                 /\ charts[1].type = "line"
                 /\ charts[1].data.labels = <<SecondLatestPeriod(TheSheet), current>>
                 /\ Len(charts[1].data.datasets) = Len(regions)
                 /\ \A i \in 1..Len(regions) :
                        /\ charts[1].data.datasets[i].label = regions[i]
                        /\ charts[1].data.datasets[i].data
                               = <<RevenueOf(TheSheet, SecondLatestPeriod(TheSheet), regions[i]),
                                   RevenueOf(TheSheet, current, regions[i])>>
            ELSE \A i \in 1..Len(charts) : charts[i].type # "line"

-----------------------------------------------------------------------------
(* The churn figures as the IEEE doubles the code computes with.  read_csv   *)
(* turns the cell "0.4" into the double nearest to 4/10, and the - of line   *)
(* 55 and the + of line 95 each round their exact result to 53 significant   *)
(* bits, ties to even.  A double is held as [neg, mag]: its sign and its     *)
(* magnitude in units of 2^-60, mag being a natural number written as the    *)
(* sequence of its Width bits, lowest first.  (Every double met here is 0 or *)
(* lies between 1/16 and 2^8, so it is a whole number of such units.)  NPS   *)
(* is a column of integers: its arithmetic is exact.                         *)

\* the largest churn rate of a row, in tenths of a percent
MaxChurnTenths == 9

\* the bits of the mantissa of a double
MantissaBits == 53

\* the binary places of the unit magnitudes are counted in
UnitPlaces == 60

\* the bits a magnitude is written with (the doubles met here are below 2^8)
Width == 68

\* the bits of the small numbers BitsOf is given
SmallBits == 16

\* the natural number n < 2^SmallBits as bits, lowest first
BitsOf(n) == [i \in 1..Width |-> IF i <= SmallBits THEN (n \div 2^(i - 1)) % 2 ELSE 0]

Zero == BitsOf(0)

\* b * 2^k
ShiftLeft(b, k) == [i \in 1..Len(b) |-> IF i > k THEN b[i - k] ELSE 0]

\* the number of bits of b without its leading zeros
BitLength(b) ==
    IF \A i \in 1..Len(b) : b[i] = 0 THEN 0
    ELSE CHOOSE i \in 1..Len(b) : b[i] = 1 /\ \A j \in (i + 1)..Len(b) : b[j] = 0

RECURSIVE AddBits(_, _, _)
\* a + b + carry for a and b of the same length: the sum's bits of that length
\* and the carry out (the lower half first, its carry into the upper half)
AddBits(a, b, carry) ==
    IF Len(a) = 1
    THEN [bits |-> <<(a[1] + b[1] + carry) % 2>>, carry |-> (a[1] + b[1] + carry) \div 2]
    ELSE LET h == Len(a) \div 2
             low == AddBits(SubSeq(a, 1, h), SubSeq(b, 1, h), carry)
             high == AddBits(SubSeq(a, h + 1, Len(a)), SubSeq(b, h + 1, Len(b)), low.carry)
         IN  [bits |-> low.bits \o high.bits, carry |-> high.carry]

RECURSIVE SubBits(_, _, _)
\* a - b - borrow for a and b of the same length, and the borrow out
SubBits(a, b, borrow) ==
    IF Len(a) = 1
    THEN [bits |-> <<(a[1] - b[1] - borrow) % 2>>,
          borrow |-> IF a[1] - b[1] - borrow < 0 THEN 1 ELSE 0]
    ELSE LET h == Len(a) \div 2
             low == SubBits(SubSeq(a, 1, h), SubSeq(b, 1, h), borrow)
             high == SubBits(SubSeq(a, h + 1, Len(a)), SubSeq(b, h + 1, Len(b)), low.borrow)
         IN  [bits |-> low.bits \o high.bits, borrow |-> high.borrow]

\* a < b, for a and b of the same length
LessBits(a, b) ==
    \E i \in 1..Len(a) : a[i] < b[i] /\ \A j \in (i + 1)..Len(a) : a[j] = b[j]

\* the exact magnitude b (+ a positive fraction of a unit when sticky) rounded
\* to MantissaBits significant bits, a tie going to the even mantissa
RoundBits(b, sticky) ==
    IF BitLength(b) <= MantissaBits THEN b
    ELSE LET k == BitLength(b) - MantissaBits
             kept == [i \in 1..Len(b) |-> IF i > k THEN b[i] ELSE 0]
             below == sticky \/ \E i \in 1..(k - 1) : b[i] = 1
             up == b[k] = 1 /\ (below \/ b[k + 1] = 1)
         IN  IF up THEN AddBits(kept, ShiftLeft(BitsOf(1), k), 0).bits ELSE kept

\* bit i (from 1, the lowest) of the natural number n < 2^SmallBits
BitOf(n, i) == (n \div 2^(i - 1)) % 2

\* the places the long division below brings down at a time
Chunk == 15

\* what read_csv makes of a cell that reads t tenths: the double nearest to
\* t / 10.  t * 2^UnitPlaces is divided by 10 the long way, Chunk places at a
\* time: every remainder r, followed by Chunk zeros, gives Chunk more bits of
\* the quotient; a last remainder other than 0 is what the quotient lacks
FromTenths(t) ==
    LET c1 == (t % 10) * 2^Chunk
        c2 == (c1 % 10) * 2^Chunk
        c3 == (c2 % 10) * 2^Chunk
        c4 == (c3 % 10) * 2^Chunk
        quotient == [i \in 1..Width |->
                        IF i <= Chunk THEN BitOf(c4 \div 10, i)
                        ELSE IF i <= 2 * Chunk THEN BitOf(c3 \div 10, i - Chunk)
                        ELSE IF i <= 3 * Chunk THEN BitOf(c2 \div 10, i - 2 * Chunk)
                        ELSE IF i <= UnitPlaces THEN BitOf(c1 \div 10, i - 3 * Chunk)
                        ELSE BitOf(t \div 10, i - UnitPlaces)]
    IN  [neg |-> FALSE, mag |-> RoundBits(quotient, c4 % 10 # 0)]

\* x + y in double arithmetic
FloatAdd(x, y) ==
    IF x.neg = y.neg
    THEN [neg |-> x.neg, mag |-> RoundBits(AddBits(x.mag, y.mag, 0).bits, FALSE)]
    ELSE IF LessBits(x.mag, y.mag)
    THEN [neg |-> y.neg, mag |-> RoundBits(SubBits(y.mag, x.mag, 0).bits, FALSE)]
    ELSE [neg |-> x.neg /\ x.mag # y.mag,
          mag |-> RoundBits(SubBits(x.mag, y.mag, 0).bits, FALSE)]

\* x - y in double arithmetic (0.0 is kept positive: -0.0 == 0.0 in Python)
FloatSub(x, y) == FloatAdd(x, [neg |-> ~y.neg /\ y.mag # Zero, mag |-> y.mag])

\* lines 50-58 on a spreadsheet whose Churn_Rate cells are doubles
CustomerSectionOfDoubles(df) ==
    LET q2_churn == FromTenths(QuarterRows(df, CurrentQuarter(df))[1]["Churn_Rate"])
        q1_churn == FromTenths(QuarterRows(df, PriorQuarter(df))[1]["Churn_Rate"])
        q2_nps == QuarterRows(df, CurrentQuarter(df))[1]["NPS"]
    IN  [churn_q2 |-> q2_churn,
         churn_change |-> FloatSub(q1_churn, q2_churn),
         nps_q2 |-> q2_nps,
         nps_change |-> q2_nps - QuarterRows(df, PriorQuarter(df))[1]["NPS"]]

\* lines 94-97 on doubles
ChurnSeriesOfDoubles(customer_metrics) ==
    <<FloatAdd(customer_metrics.churn_q2, customer_metrics.churn_change),
      customer_metrics.churn_q2>>

\* lines 87-113 on a customer section whose churn figures are doubles
BarChartOfDoubles(customer_metrics) ==
    [type |-> "bar",
     data |->
         [labels |-> <<"Q1 2025", "Q2 2025">>,
          datasets |->
              <<[label |-> "Churn Rate (%)",
                 data |-> ChurnSeriesOfDoubles(customer_metrics),
                 backgroundColor |-> "#FF6384"],
                [label |-> "NPS",
                 data |-> NpsSeries(customer_metrics),
                 backgroundColor |-> "#36A2EB"]>>],
     options |-> ChartTitle("Churn Rate and NPS Comparison")]

\* two rows of one region, a prior and a current one, with the given churn rates
\* (in tenths) and NPS
ChurnRows(q1, q2, n1, n2) ==
    <<[Quarter |-> "Q1 2025", Region |-> "APAC", Churn_Rate |-> q1, NPS |-> n1],
      [Quarter |-> "Q2 2025", Region |-> "APAC", Churn_Rate |-> q2, NPS |-> n2]>>

ChurnRequests ==
    {Request(<<Spreadsheet(DataFrame({"Quarter", "Region", "Churn_Rate", "NPS"},
                                     ChurnRows(x[1], x[2], x[3], x[4])))>>, <<>>, "saas") :
        x \in (0..MaxChurnTenths) \X (0..MaxChurnTenths) \X {55, 62} \X {55, 62}}

InitDoubles == \E request \in ChurnRequests : Received(request)

\* analyze_spreadsheet: the customer metrics
ReadCustomerMetrics ==
    /\ pc = "parsed"
    /\ insights' = [metrics |->
                       [customer_metrics |-> CustomerSectionOfDoubles(TheSheet)]]
    /\ pc' = "insights"
    /\ UNCHANGED <<parsed_data, template_id, charts, slide_data, error, reference>>

\* generate_visualizations: the bar chart
BuildBarChart ==
    /\ pc = "insights"
    /\ charts' = IF Present(insights["metrics"], "customer_metrics")
                 THEN <<BarChartOfDoubles(insights["metrics"]["customer_metrics"])>>
                 ELSE <<>>
    /\ pc' = "done"
    /\ UNCHANGED <<parsed_data, template_id, insights, slide_data, error, reference>>

NextDoubles == ReadCustomerMetrics \/ BuildBarChart

SpecDoubles == InitDoubles /\ [][NextDoubles]_vars

\* C17 as stated: the bar chart's churn series is [churn_q2 + churn_change,
\* churn_q2] and its NPS series [nps_q2 - nps_change, nps_q2], and the first
\* element of each is the prior-period churn rate and the prior-period NPS the
\* extractor read.
C17_DeltaRoundTrip ==
    pc = "done" =>
        /\ Len(charts) = 1
        /\ charts[1].type = "bar"
        /\ charts[1].data.datasets[1].data
               = <<FromTenths(PriorRows[1]["Churn_Rate"]),
                   FromTenths(CurrentRows[1]["Churn_Rate"])>>
        /\ charts[1].data.datasets[2].data
               = <<PriorRows[1]["NPS"], CurrentRows[1]["NPS"]>>

\* s begins with p
StartsWith(s, p) == Len(s) >= Len(p) /\ SubSeq(s, 1, Len(p)) = p

\* C18: the summary lists its sentences in the order revenue, churn, NPS, CAC,
\* feedback: the first is the revenue sentence or the revenue fallback; then
\* come the churn and the NPS sentence, or the one customer-metrics fallback;
\* then the CAC sentence or the cost fallback; and the feedback sentence, which
\* quotes the feedback text verbatim, is there, last, exactly when the bundle
\* carries PDF feedback.  Nothing else is in the summary.
C18_SummaryOrder ==
    pc \in {"summarized", "narrated"} =>
        LET m == insights["metrics"]
            summary == insights["summary"]
            customer == Present(m, "customer_metrics")
            feedback == "pdf_feedback" \in DOMAIN m
            cost == IF customer THEN 4 ELSE 3
        IN  /\ Len(summary) = cost + (IF feedback THEN 1 ELSE 0)
            /\ IF Present(m, "revenue")
               THEN /\ StartsWith(summary[1], "Revenue: $")
                    /\ Contains(summary[1], m["revenue"].top_region)
               ELSE summary[1] = "Revenue: Insufficient data for analysis"
            /\ IF customer
               THEN /\ StartsWith(summary[2], "Churn: ")
                    /\ summary[3] = "NPS: Improved to " \o ToString(m["customer_metrics"].nps_q2)
               ELSE summary[2] = "Customer Metrics: Insufficient data for analysis"
            /\ IF Present(m, "costs")
               THEN StartsWith(summary[cost], "CAC: Reduced by ")
               ELSE summary[cost] = "Costs: Insufficient data for analysis"
            /\ feedback =>
                   summary[cost + 1] = "Customer Feedback: " \o m["pdf_feedback"].customer_feedback
            /\ \A i \in 1..cost : ~StartsWith(summary[i], "Customer Feedback")

\* the summary of a bundle with revenue and costs present, the customer
\* metrics insufficient, and PDF feedback
C18_Witness ==
    /\ pc = "summarized"
    /\ Present(insights["metrics"], "revenue")
    /\ Insufficient(insights["metrics"], "customer_metrics")
    /\ Present(insights["metrics"], "costs")
    /\ "pdf_feedback" \in DOMAIN insights["metrics"]
    /\ Len(insights["summary"]) = 4
    /\ insights["summary"][4] = "Customer Feedback: NPS improved to 62"

\* C19: the recommendations come in the order revenue, churn, NPS, cost: one
\* for a present revenue section (investment in the top region when growth is
\* above 5%, a review otherwise), two for a present customer-metrics section
\* (the churn one decided by churn_change alone, the NPS one by nps_change
\* alone), one for a present cost section, none for any other section; the
\* "no actionable recommendations" entry is the whole list when no section is
\* present and is in no other list.
C19_RecommendationList ==
    pc = "narrated" =>
        LET m == insights["metrics"]
            recommendations == insights["recommendations"]
            revenue == IF Present(m, "revenue") THEN 1 ELSE 0
            customer == IF Present(m, "customer_metrics") THEN 2 ELSE 0
            costs == IF Present(m, "costs") THEN 1 ELSE 0
        IN  IF revenue + customer + costs = 0
            THEN recommendations = <<"No actionable recommendations based on available data">>
            ELSE /\ Len(recommendations) = revenue + customer + costs
                 /\ \A i \in 1..Len(recommendations) :
                        recommendations[i]
                            # "No actionable recommendations based on available data"
                 /\ revenue = 1 =>
                        recommendations[1] =
                            IF m["revenue"].growth_qoq > 50
                            THEN "Increase investment in " \o m["revenue"].top_region
                                     \o " to capitalize on strong growth"
                            ELSE "Review underperforming regions for optimization"
                 /\ customer = 2 =>
                        /\ recommendations[revenue + 1] =
                               IF m["customer_metrics"].churn_change < 0
                               THEN "Launch targeted retention campaigns to address rising churn"
                               ELSE "Maintain retention strategies to sustain low churn"
                        /\ recommendations[revenue + 2] =
                               IF m["customer_metrics"].nps_change > 0
                               THEN "Leverage positive NPS feedback in marketing campaigns"
                               ELSE "Investigate NPS decline and enhance customer experience"
                 /\ costs = 1 =>
                        recommendations[revenue + customer + 1] =
                            IF m["costs"].cac_reduction > 50
                            THEN "Continue optimizing marketing channels to sustain CAC reduction"
                            ELSE "Reassess marketing spend efficiency to reduce CAC"

\* four recommendations, for a bundle whose churn rose while its NPS improved
C19_Witness ==
    /\ pc = "narrated"
    /\ Present(insights["metrics"], "revenue")
    /\ Present(insights["metrics"], "customer_metrics")
    /\ Present(insights["metrics"], "costs")
    /\ insights["metrics"]["customer_metrics"].churn_change < 0
    /\ insights["metrics"]["customer_metrics"].nps_change > 0
    /\ Len(insights["recommendations"]) = 4

\* the churn sentence of the summary says that churn rose
SummarySaysChurnRose ==
    \E i \in 1..Len(insights["summary"]) :
        /\ StartsWith(insights["summary"][i], "Churn: ")
        /\ Contains(insights["summary"][i], "increased")
        /\ Contains(insights["summary"][i], ", up ")

\* the retention campaign for rising churn is recommended
CampaignRecommended ==
    \E i \in 1..Len(insights["recommendations"]) :
        insights["recommendations"][i]
            = "Launch targeted retention campaigns to address rising churn"

\* C20 as stated: for a bundle with a present customer-metrics section, the
\* summary says churn "increased" / "up" if and only if the retention campaign
\* for rising churn is recommended, whatever churn_change is.
C20_ChurnDirectionAgrees ==
    (pc = "narrated" /\ Present(insights["metrics"], "customer_metrics")) =>
        (SummarySaysChurnRose <=> CampaignRecommended)

-----------------------------------------------------------------------------
(* Requests with several spreadsheets: generate_insights merges the result  *)
(* of every spreadsheet into one dict, generate_slides reads the first      *)

MaxSheets == 2

\* a spreadsheet of one prior-period row and one current-period row
SheetRowLists ==
    {<<GeneratedRow("Q1 2025", x[1], x[2]), GeneratedRow("Q2 2025", x[3], x[4])>> :
        x \in Regions \X {0, MaxRevenue} \X Regions \X {0, MaxRevenue}}

\* with all the columns, or with the required ones only
SheetColumnSets ==
    {AllColumns, AllColumns \ {"Churn_Rate", "NPS", "CAC", "Marketing_Spend"}}

Sheets ==
    {Spreadsheet(DataFrame(cols, rows)) : cols \in SheetColumnSets, rows \in SheetRowLists}

SheetLists == UNION {[1..n -> Sheets] : n \in 1..MaxSheets}

SheetRequests == {Request(sheets, <<>>, "saas") : sheets \in SheetLists}

InitSheets == \E request \in SheetRequests : Received(request)

SpecSheets == InitSheets /\ [][Next]_vars

SeveralSheets == Len(parsed_data.spreadsheets) > 1

\* the sections of a metrics dict that come from a spreadsheet
SheetSections == {"revenue", "customer_metrics", "costs"}

\* the metrics and the charts of the request are those of its k-th spreadsheet
DerivedFromSheet(k) ==
    LET df == parsed_data.spreadsheets[k].data
        own == analyze_spreadsheet(df)
    IN  /\ ~own.raised
        /\ \A key \in SheetSections :
               /\ Present(Metrics, key) <=> Present(own.value, key)
               /\ Present(Metrics, key) => Metrics[key] = own.value[key]
        /\ ~generate_visualizations(own.value, df).raised
        /\ charts = generate_visualizations(own.value, df).value

\* C21: when a request with several spreadsheets has produced its slide data,
\* the metrics and the charts are derived from one and the same spreadsheet:
\* the revenue values and prior-period lookups of the charts come from the
\* spreadsheet whose metrics generate_insights reports.
C21_OneRecordSet ==
    (pc = "done" /\ SeveralSheets) =>
        \E k \in 1..Len(parsed_data.spreadsheets) : DerivedFromSheet(k)

====
